---- MODULE Spec2Model ----
(***************************************************************************)
(* Model of install_dst.py: one invocation of main() driving               *)
(* DSTManager.execute(), the version decision, the retry loop of           *)
(* run_update_process() and the single JSON result written on stdout.      *)
(*                                                                         *)
(* Strings built by f-strings are modelled as token sequences (the empty   *)
(* string is << >>), exceptions as records [cls, args] like Python's       *)
(* BaseException.args, JSON objects as records.                            *)
(***************************************************************************)
EXTENDS Integers, Sequences, FiniteSets, TLC

\* ---------------------------------------------------------------- constants
MAX_RETRIES == 5
RETRY_DELAY == 10
MIN_DISK_SPACE_MB == 2048

ERR_UNKNOWN == "ERR_UNKNOWN"
ERR_DEPENDENCY == "ERR_DEPENDENCY"
ERR_NETWORK == "ERR_NETWORK"
ERR_DISK == "ERR_DISK"
ERR_PERMISSION == "ERR_PERMISSION"
ERR_STEAMCMD == "ERR_STEAMCMD"

\* The closed error taxonomy of lines 30-35.
ErrorCodes ==
  {ERR_UNKNOWN, ERR_DEPENDENCY, ERR_NETWORK, ERR_DISK, ERR_PERMISSION, ERR_STEAMCMD}

\* ------------------------------------------------------------------- bounds
\* Largest byte total a progress line reports.
MaxBytes == 1

\* ------------------------------------------------------------- environment
\* Python's None (build ids are digit strings, so no build id equals it).
None == "None"

\* Build ids the manifest or the remote query can carry.
BuildIds == {"100", "205"}

\* What is on disk at manifest_path: no file, a file without a buildid
\* field, or a file whose buildid field holds a build id.
ManifestContents == {"absent", "garbage"} \cup BuildIds

\* What is on disk when main starts.
InitialManifests == {"absent", "100"}

\* errno of a native OSError that is no PermissionError (EROFS, 30). It is
\* an int in Python; written as a digit string so that it can be compared
\* with the ERR_* strings.
EROFS == "30"

\* The substrings run_update_process looks for in the joined output.
SuccessMarker == "Success! App '343050' fully installed"
NetMarker == "0x202"
DiskMarker == "0x6"
Markers == {SuccessMarker, NetMarker, DiskMarker}

\* progress_pattern found no match in the line.
NoMatch == -1

\* One stripped output line, by what the code asks of it: whether it contains
\* "downloading", the group(1) of progress_pattern (or NoMatch), and the
\* marker substrings it contains.
Lines ==
  [downloading : BOOLEAN, total : {NoMatch} \cup (0..MaxBytes), marks : SUBSET Markers]

\* Exit codes of the subprocesses.
ExitCodes == {0, 1}

\* Free space, in MB, that shutil.disk_usage can report.
FreeMB == {100, 4096}

\* ---------------------------------------------------------------- exceptions
\* No exception.
NoExc == [cls |-> "none", args |-> << >>]

\* OSError(code, msg) as this program raises it; msg is a token sequence.
OSErrorOf(code, msg) == [cls |-> "OSError", args |-> <<code, msg>>]

\* A native OSError raised by os.makedirs: args = (errno, strerror).
NativeOSError == [cls |-> "OSError", args |-> <<EROFS, <<"Read-only file system">> >>]

\* An exception of Popen (the executable is missing): FileNotFoundError is an
\* OSError with args = (errno, strerror).
LaunchError == [cls |-> "OSError", args |-> <<"2", <<"No such file or directory">> >>]

\* An exception while reading the stream (UnicodeDecodeError): no OSError, and
\* str(e) is its text.
ReadError == [cls |-> "Exception", args |-> << <<"codec can't decode">> >>]

\* str(e): an OSError with two args prints "[Errno a] b", an exception with
\* one argument prints that argument.
Str(e) ==
  IF e.cls = "OSError" /\ Len(e.args) = 2
    THEN <<"[Errno", e.args[1], "]">> \o e.args[2]
    ELSE e.args[1]

\* --------------------------------------------------------------- pure parts
\* get_local_version, lines 117-123.
get_local_version(m) == IF m \in BuildIds THEN m ELSE "0"

\* The result of subprocess.run in get_remote_version: a timeout, or an exit
\* code with the build id of the first public block (NoBuildId when either
\* regular expression fails).
NoBuildId == "no match"

QueryResults ==
  [timeout : {TRUE}, rc : {1}, bid : {NoBuildId}]
    \cup [timeout : {FALSE}, rc : ExitCodes, bid : {NoBuildId} \cup BuildIds]

\* get_remote_version, lines 125-139: check=False, so the exit code is not
\* looked at.
get_remote_version(q) ==
  IF q.timeout THEN None
  ELSE IF q.bid = NoBuildId THEN None ELSE q.bid

\* lines 209-217.
ShouldUpdateNoUnknown(f, old, remote) == f \/ (remote # None /\ old # remote)

ShouldUpdateInverted(f, old, remote) == f \/ remote = None \/ old = remote

ShouldUpdate(f, old, remote) == f \/ remote = None \/ old # remote

\* line 223.
StateAfterUpdateAlways(old) == "updated"

StateAfterUpdate(old) == IF old = "0" THEN "fresh_installed" ELSE "updated"

\* lines 174-176: the line is a download progress line.
IsProgressLine(line) == line.downloading /\ line.total # NoMatch

\* lines 174-179: the running byte total after one line.
UpdateTotalOverwrite(cur, line) ==
  IF line.downloading /\ line.total # NoMatch THEN line.total ELSE cur

UpdateTotal(cur, line) ==
  IF line.downloading /\ line.total # NoMatch /\ line.total > cur
    THEN line.total
    ELSE cur

\* line 187.
AttemptSucceededMarkerOnly(rc, log) == SuccessMarker \in log

AttemptSucceeded(rc, log) == rc = 0 /\ SuccessMarker \in log

\* lines 192-193: the exception raised for a failed attempt, NoExc for none.
FailureRaised(log) ==
  IF NetMarker \in log THEN OSErrorOf(ERR_NETWORK, <<"Rate Limit/Network (0x202)">>)
  ELSE IF DiskMarker \in log THEN OSErrorOf(ERR_DISK, <<"Disk Write Fail (0x6)">>)
  ELSE NoExc

\* line 191.
FailedMessage(rc) == <<"SteamCMD failed (Code", ToString(rc), ")">>

\* line 158: range(1, MAX_RETRIES + 1) has a next value after attempt a.
HasNextAttemptShort(a) == a < MAX_RETRIES - 1

HasNextAttemptLong(a) == a < MAX_RETRIES + 1

HasNextAttempt(a) == a < MAX_RETRIES

\* lines 229-247: the dict execute returns (total_mb, paths and timestamp
\* are left out).
SuccessResult(st, old, new, remote, bytes) ==
  [status |-> "success",
   state |-> st,
   version_info |->
     [old_version |-> old,
      new_version |-> new,
      remote_version |-> IF remote = None THEN "unknown" ELSE remote],
   download_info |-> [total_bytes |-> bytes]]

\* lines 249-254: the {"code", "message"} object execute puts in the
\* RuntimeError.
ErrorPayloadUnknown(e) == [code |-> ERR_UNKNOWN, message |-> Str(e)]

ErrorPayload(e) ==
  IF e.cls = "OSError"
    THEN [code |-> IF Len(e.args) > 1 THEN e.args[1] ELSE ERR_UNKNOWN,
          message |-> IF Len(e.args) > 1 THEN e.args[2] ELSE Str(e)]
    ELSE [code |-> ERR_UNKNOWN, message |-> Str(e)]

\* line 277: the object main prints for a RuntimeError.
ErrorOutputPartial(err) ==
  [status |-> "error", error |-> err, version_info |-> [old_version |-> "0"]]

ErrorOutput(err) == [status |-> "error", error |-> err]

\* _ensure_dir, lines 74-79: what the call raises for each state of the file
\* system: the path exists, makedirs creates it, makedirs is refused
\* (PermissionError), makedirs fails with another OSError.
DirStates == {"exists", "created", "denied", "oserror"}

EnsureDirRaised(fs) ==
  IF fs = "denied" THEN OSErrorOf(ERR_PERMISSION, <<"No write permission">>)
  ELSE IF fs = "oserror" THEN NativeOSError
  ELSE NoExc

\* shutil.disk_usage raised.
ProbeFailed == -1

\* _check_disk_space is not running: there is no probe result.
Unprobed == -2

\* Results of shutil.disk_usage: a failure, or the free space in MB.
Probes == {ProbeFailed} \cup FreeMB

\* _check_disk_space, lines 84-87: the exception raised inside the try block.
DiskCheckRaised(probe) ==
  IF probe = ProbeFailed THEN [cls |-> "Exception", args |-> << <<"disk_usage failed">> >>]
  ELSE IF probe < MIN_DISK_SPACE_MB
    THEN OSErrorOf(ERR_DISK, <<"Insufficient disk space. Free:", ToString(probe), "MB">>)
    ELSE NoExc

\* _check_disk_space, lines 88-89: the bare except swallows whatever the try
\* block raised, so nothing escapes the call.
BareExceptPass(e) == NoExc

DiskCheckEscapes(probe) == BareExceptPass(DiskCheckRaised(probe))

\* -------------------------------------------------------------------- state
VARIABLES
  pc,                    \* position in main / execute / run_update_process
  force,                 \* args.force
  manifest,              \* the manifest file on disk
  free_mb,               \* free space probed (local of _check_disk_space)
  res,                   \* result of the info query (local of get_remote_version)
  old_ver, remote_ver, new_ver, status, should_update,   \* locals of execute
  download_total_bytes,  \* self.download_total_bytes
  attempt, success, last_error, output_buffer,   \* locals of run_update_process
  returncode,            \* process.returncode of the latest Popen object
  alive,                 \* number of update subprocesses that have not exited
  launches,              \* update subprocesses started by Popen
  slept,                 \* time.sleep(RETRY_DELAY) was called since the last attempt ended
  last_outcome,          \* how the most recent attempt ended
  all_outcomes,          \* the one way all attempts so far ended, or "mixed"
  seen_max,              \* largest total of the download progress lines read so far
  raised,                \* exception propagating out of execute's try block
  result,                \* value execute returns, or payload of its RuntimeError
  stdout,                \* JSON objects printed on standard output
  exit_code              \* exit code of the process

vars ==
  <<pc, force, manifest, free_mb, res, old_ver, remote_ver, new_ver, status,
    should_update, download_total_bytes, attempt, success, last_error,
    output_buffer, alive, launches, slept, last_outcome, all_outcomes,
    seen_max, raised, result, stdout, exit_code, returncode>>

Unset == "unset"
\* get_remote_version is not running: there is no query result.
NoRes == [timeout |-> FALSE, rc |-> 0, bid |-> Unset]
NoResult == [status |-> "none"]
Running == -1
\* process.returncode before wait() returned (Python's None).
NoReturncode == -1

\* __init__, lines 57-67, and the environment main runs in.
Init ==
  /\ pc = "prepare"
  /\ force \in BOOLEAN
  /\ manifest \in InitialManifests
  /\ free_mb = Unprobed
  /\ res = NoRes
  /\ old_ver = Unset
  /\ remote_ver = Unset
  /\ new_ver = Unset
  /\ status = Unset
  /\ should_update = FALSE
  /\ download_total_bytes = 0
  /\ attempt = 0
  /\ success = FALSE
  /\ last_error = << >>
  /\ output_buffer = {}
  /\ returncode = NoReturncode
  /\ alive = 0
  /\ launches = 0
  /\ slept = FALSE
  /\ last_outcome = "none"
  /\ all_outcomes = "none"
  /\ seen_max = 0
  /\ raised = NoExc
  /\ result = NoResult
  /\ stdout = << >>
  /\ exit_code = Running

\* The way all attempts ended, after one more ended as k.
Observe(all, k) == IF all \in {"none", k} THEN k ELSE "mixed"

\* An exception leaves execute's try block: control goes to lines 249-254.
Raise(e) ==
  /\ raised' = e
  /\ pc' = "except"

\* prepare_steamcmd, lines 91-115.
PrepareSteamcmd ==
  /\ pc = "prepare"
  /\ \E fs \in DirStates, installed \in {"present", "downloaded", "failed"} :
       IF EnsureDirRaised(fs) # NoExc
         THEN Raise(EnsureDirRaised(fs))
         ELSE IF installed = "failed"
           THEN Raise(OSErrorOf(ERR_NETWORK, <<"Failed to install SteamCMD">>))
           ELSE pc' = "get_local" /\ UNCHANGED raised
  /\ UNCHANGED <<returncode, force, manifest, free_mb, res, old_ver, remote_ver, new_ver, status,
                 should_update, download_total_bytes, attempt, success, last_error,
                 output_buffer, alive, launches, slept, last_outcome,
                 all_outcomes, result, stdout, exit_code, seen_max>>

\* execute, line 206.
GetLocalVersion ==
  /\ pc = "get_local"
  /\ old_ver' = get_local_version(manifest)
  /\ pc' = "get_remote"
  /\ UNCHANGED <<returncode, force, manifest, free_mb, res, remote_ver, new_ver, status,
                 should_update, download_total_bytes, attempt, success, last_error,
                 output_buffer, alive, launches, slept, last_outcome,
                 all_outcomes, raised, result, stdout, exit_code, seen_max>>

\* execute, line 207.
GetRemoteVersion ==
  /\ pc = "get_remote"
  /\ \E q \in QueryResults :
       /\ res' = q
       /\ remote_ver' = get_remote_version(q)
  /\ pc' = "decide"
  /\ UNCHANGED <<returncode, force, manifest, free_mb, old_ver, new_ver, status,
                 should_update, download_total_bytes, attempt, success, last_error,
                 output_buffer, alive, launches, slept, last_outcome,
                 all_outcomes, raised, result, stdout, exit_code, seen_max>>

\* execute, lines 209-225: the decision; without an update new_ver is old_ver.
Decide ==
  /\ pc = "decide"
  /\ should_update' = ShouldUpdate(force, old_ver, remote_ver)
  /\ status' = "up_to_date"
  /\ res' = NoRes
  /\ IF should_update'
       THEN pc' = "ensure_dir" /\ UNCHANGED new_ver
       ELSE pc' = "assemble" /\ new_ver' = old_ver
  /\ UNCHANGED <<returncode, force, manifest, free_mb, old_ver, remote_ver,
                 download_total_bytes, attempt, success, last_error,
                 output_buffer, alive, launches, slept, last_outcome,
                 all_outcomes, raised, result, stdout, exit_code, seen_max>>

\* run_update_process, line 142.
EnsureGameDir ==
  /\ pc = "ensure_dir"
  /\ \E fs \in DirStates :
       IF EnsureDirRaised(fs) # NoExc
         THEN Raise(EnsureDirRaised(fs))
         ELSE pc' = "check_disk" /\ UNCHANGED raised
  /\ UNCHANGED <<returncode, force, manifest, free_mb, res, old_ver, remote_ver, new_ver, status,
                 should_update, download_total_bytes, attempt, success, last_error,
                 output_buffer, alive, launches, slept, last_outcome,
                 all_outcomes, result, stdout, exit_code, seen_max>>

\* _check_disk_space, lines 82-85: the probe of the free space.
ProbeDisk ==
  /\ pc = "check_disk"
  /\ free_mb' \in Probes
  /\ pc' = "disk_probed"
  /\ UNCHANGED <<returncode, force, manifest, res, old_ver, remote_ver, new_ver, status,
                 should_update, download_total_bytes, attempt, success, last_error,
                 output_buffer, alive, launches, slept, last_outcome,
                 all_outcomes, raised, result, stdout, exit_code, seen_max>>

\* _check_disk_space, lines 86-89, its return (the probe result is a local of
\* the call) and run_update_process, lines 145-156.
CheckDiskSpace ==
  /\ pc = "disk_probed"
  /\ IF DiskCheckEscapes(free_mb) # NoExc
       THEN Raise(DiskCheckEscapes(free_mb))
       ELSE pc' = "loop" /\ UNCHANGED raised
  /\ free_mb' = Unprobed
  /\ success' = FALSE
  /\ last_error' = << >>
  /\ UNCHANGED <<returncode, force, manifest, res, old_ver, remote_ver, new_ver, status,
                 should_update, download_total_bytes, attempt,
                 output_buffer, alive, launches, slept, last_outcome,
                 all_outcomes, result, stdout, exit_code, seen_max>>

\* run_update_process, lines 195-198: the except clause of an attempt records
\* str(e), sleeps RETRY_DELAY and goes on with the loop.
AttemptExcept(e) ==
  /\ last_error' = Str(e)
  /\ slept' = TRUE
  /\ pc' = "loop"

\* lines 158-167: the next attempt starts its subprocess.
Launch ==
  /\ pc = "loop"
  /\ HasNextAttempt(attempt)
  /\ attempt' = attempt + 1
  /\ alive' = alive + 1
  /\ launches' = launches + 1
  /\ output_buffer' = {}
  /\ slept' = FALSE
  /\ returncode' = NoReturncode
  /\ pc' = "reading"
  /\ UNCHANGED <<force, manifest, free_mb, res, old_ver, remote_ver, new_ver, status,
                 should_update, download_total_bytes, success, last_error,
                 last_outcome, all_outcomes, raised, result, stdout, exit_code, seen_max>>

\* lines 158-165, 195-198: Popen raises, no subprocess is started.
LaunchFails ==
  /\ pc = "loop"
  /\ HasNextAttempt(attempt)
  /\ attempt' = attempt + 1
  /\ AttemptExcept(LaunchError)
  /\ last_outcome' = "exception"
  /\ all_outcomes' = Observe(all_outcomes, "exception")
  /\ UNCHANGED <<returncode, force, manifest, free_mb, res, old_ver, remote_ver, new_ver, status,
                 should_update, download_total_bytes, success, output_buffer, alive,
                 launches, raised, result, stdout, exit_code, seen_max>>

\* lines 168-182: one line of output is read, stripped and appended.
ReadLine ==
  /\ pc = "reading"
  /\ \E line \in Lines :
       /\ output_buffer' = output_buffer \cup line.marks
       /\ download_total_bytes' = UpdateTotal(download_total_bytes, line)
       /\ seen_max' = IF IsProgressLine(line) /\ line.total > seen_max
                         THEN line.total
                         ELSE seen_max
  /\ UNCHANGED <<returncode, pc, force, manifest, free_mb, res, old_ver, remote_ver, new_ver,
                 status, should_update, attempt, success, last_error, alive,
                 launches, slept, last_outcome, all_outcomes, raised, result,
                 stdout, exit_code>>

\* lines 169, 195-198: readline raises; the subprocess is not waited for.
ReadFails ==
  /\ pc = "reading"
  /\ AttemptExcept(ReadError)
  /\ last_outcome' = "exception"
  /\ all_outcomes' = Observe(all_outcomes, "exception")
  /\ UNCHANGED <<returncode, force, manifest, free_mb, res, old_ver, remote_ver, new_ver, status,
                 should_update, download_total_bytes, attempt, success,
                 output_buffer, alive, launches, raised, result, stdout, exit_code, seen_max>>

\* How an attempt that exited with rc and output log is counted.
ExitOutcome(rc, log) ==
  IF AttemptSucceeded(rc, log) THEN "success"
  ELSE IF FailureRaised(log) = NoExc
    THEN (IF rc = 1 /\ log = {} THEN "exit1_silent" ELSE "failed")
    ELSE IF FailureRaised(log).args[1] = ERR_NETWORK THEN "network" ELSE "disk"

\* lines 170, 184-198: end of output, the subprocess exits with rc; success
\* leaves the loop, a failure without marker goes on with the loop, a failure
\* with a marker raises into the except clause.
ProcessExit ==
  /\ pc = "reading"
  /\ \E rc \in ExitCodes :
       /\ alive' = alive - 1
       /\ returncode' = rc
       /\ last_outcome' = ExitOutcome(rc, output_buffer)
       /\ all_outcomes' = Observe(all_outcomes, ExitOutcome(rc, output_buffer))
       /\ IF AttemptSucceeded(rc, output_buffer)
            THEN /\ success' = TRUE
                 /\ pc' = "after_loop"
                 /\ manifest' \in BuildIds
                 /\ UNCHANGED <<last_error, slept>>
            ELSE /\ UNCHANGED <<success, manifest>>
                 /\ IF FailureRaised(output_buffer) = NoExc
                      THEN /\ last_error' = FailedMessage(rc)
                           /\ pc' = "loop"
                           /\ UNCHANGED slept
                      ELSE AttemptExcept(FailureRaised(output_buffer))
  /\ UNCHANGED <<force, free_mb, res, old_ver, remote_ver, new_ver, status,
                 should_update, download_total_bytes, attempt, output_buffer,
                 launches, raised, result, stdout, exit_code, seen_max>>

\* A subprocess the program no longer waits for exits by itself.
OrphanExits ==
  /\ exit_code = Running
  /\ alive > (IF pc = "reading" THEN 1 ELSE 0)
  /\ alive' = alive - 1
  /\ UNCHANGED <<returncode, pc, force, manifest, free_mb, res, old_ver, remote_ver, new_ver,
                 status, should_update, download_total_bytes, attempt, success,
                 last_error, output_buffer, launches, slept, last_outcome,
                 all_outcomes, raised, result, stdout, exit_code, seen_max>>

\* line 201 without the test of line 200: the error is raised whether or not
\* an attempt succeeded.
AfterLoopAlwaysRaises ==
  /\ \/ pc = "after_loop"
     \/ pc = "loop" /\ ~HasNextAttempt(attempt)
  /\ Raise(OSErrorOf(ERR_STEAMCMD, last_error))
  /\ UNCHANGED <<returncode, force, manifest, free_mb, res, old_ver, remote_ver, new_ver,
                 status, should_update, download_total_bytes, attempt, success,
                 last_error, output_buffer, alive, launches, slept, last_outcome,
                 all_outcomes, result, stdout, exit_code, seen_max>>

\* lines 200-201, after the break or the last iteration.
AfterLoop ==
  /\ \/ pc = "after_loop"
     \/ pc = "loop" /\ ~HasNextAttempt(attempt)
  /\ IF success
       THEN pc' = "post_update" /\ UNCHANGED raised
       ELSE Raise(OSErrorOf(ERR_STEAMCMD, last_error))
  /\ UNCHANGED <<returncode, force, manifest, free_mb, res, old_ver, remote_ver, new_ver, status,
                 should_update, download_total_bytes, attempt, success, last_error,
                 output_buffer, alive, launches, slept, last_outcome,
                 all_outcomes, result, stdout, exit_code, seen_max>>

\* execute, lines 222-223.
PostUpdate ==
  /\ pc = "post_update"
  /\ new_ver' = get_local_version(manifest)
  /\ status' = StateAfterUpdate(old_ver)
  /\ pc' = "assemble"
  /\ UNCHANGED <<returncode, force, manifest, free_mb, res, old_ver, remote_ver,
                 should_update, download_total_bytes, attempt, success, last_error,
                 output_buffer, alive, launches, slept, last_outcome,
                 all_outcomes, raised, result, stdout, exit_code, seen_max>>

\* execute, lines 227-247.
Assemble ==
  /\ pc = "assemble"
  /\ result' = SuccessResult(status, old_ver, new_ver, remote_ver, download_total_bytes)
  /\ pc' = "main_print"
  /\ UNCHANGED <<returncode, force, manifest, free_mb, res, old_ver, remote_ver, new_ver, status,
                 should_update, download_total_bytes, attempt, success, last_error,
                 output_buffer, alive, launches, slept, last_outcome,
                 all_outcomes, raised, stdout, exit_code, seen_max>>

\* execute, lines 249-254.
ExecuteExcept ==
  /\ pc = "except"
  /\ result' = ErrorPayload(raised)
  /\ pc' = "main_except"
  /\ UNCHANGED <<returncode, force, manifest, free_mb, res, old_ver, remote_ver, new_ver, status,
                 should_update, download_total_bytes, attempt, success, last_error,
                 output_buffer, alive, launches, slept, last_outcome,
                 all_outcomes, raised, stdout, exit_code, seen_max>>

\* main, lines 270-271.
MainPrint ==
  /\ pc = "main_print"
  /\ stdout' = Append(stdout, result)
  /\ exit_code' = 0
  /\ pc' = "done"
  /\ UNCHANGED <<returncode, force, manifest, free_mb, res, old_ver, remote_ver, new_ver, status,
                 should_update, download_total_bytes, attempt, success, last_error,
                 output_buffer, alive, launches, slept, last_outcome,
                 all_outcomes, raised, result, seen_max>>

\* main, lines 272-277 without the sys.exit(1) of line 278: the interpreter
\* ends with exit code 0.
MainExceptNoExit ==
  /\ pc = "main_except"
  /\ stdout' = Append(stdout, ErrorOutput(result))
  /\ exit_code' = 0
  /\ pc' = "done"
  /\ UNCHANGED <<returncode, force, manifest, free_mb, res, old_ver, remote_ver, new_ver, status,
                 should_update, download_total_bytes, attempt, success, last_error,
                 output_buffer, alive, launches, slept, last_outcome,
                 all_outcomes, raised, result, seen_max>>

\* main, lines 272-278.
MainExcept ==
  /\ pc = "main_except"
  /\ stdout' = Append(stdout, ErrorOutput(result))
  /\ exit_code' = 1
  /\ pc' = "done"
  /\ UNCHANGED <<returncode, force, manifest, free_mb, res, old_ver, remote_ver, new_ver, status,
                 should_update, download_total_bytes, attempt, success, last_error,
                 output_buffer, alive, launches, slept, last_outcome,
                 all_outcomes, raised, result, seen_max>>

Next ==
  \/ PrepareSteamcmd
  \/ GetLocalVersion
  \/ GetRemoteVersion
  \/ Decide
  \/ EnsureGameDir
  \/ ProbeDisk
  \/ CheckDiskSpace
  \/ Launch
  \/ LaunchFails
  \/ ReadLine
  \/ ReadFails
  \/ ProcessExit
  \/ OrphanExits
  \/ AfterLoop
  \/ PostUpdate
  \/ Assemble
  \/ ExecuteExcept
  \/ MainPrint
  \/ MainExcept

Spec == Init /\ [][Next]_vars

\* The steps of the program itself: it is one sequential thread, so a step it
\* can take is taken.
ProgramStep ==
  \/ PrepareSteamcmd
  \/ GetLocalVersion
  \/ GetRemoteVersion
  \/ Decide
  \/ EnsureGameDir
  \/ ProbeDisk
  \/ CheckDiskSpace
  \/ Launch
  \/ LaunchFails
  \/ AfterLoop
  \/ PostUpdate
  \/ Assemble
  \/ ExecuteExcept
  \/ MainPrint
  \/ MainExcept

\* The program with a tool whose every launched subprocess eventually exits:
\* the reading of its output ends (end of output at lines 170 and 184, or an
\* exception).
FairSpec ==
  /\ Init
  /\ [][Next]_vars
  /\ WF_vars(ProgramStep)
  /\ WF_vars(ProcessExit \/ ReadFails)

\* ------------------------------------------------------------------- claims
\* The run has ended with one error result on stdout.
ErrorEmitted == pc = "done" /\ Len(stdout) = 1 /\ stdout[1].status = "error"

\* The run has ended with one success result on stdout.
SuccessEmitted == pc = "done" /\ Len(stdout) = 1 /\ stdout[1].status = "success"

\* Every attempt failed and the run has ended.
RetriesExhausted == pc = "done" /\ attempt = MAX_RETRIES /\ ~success

\* C1: when every attempt so far exited with code 1 and printed no marker, the
\* loop is left only after exactly MAX_RETRIES subprocesses were launched, and
\* it is left by raising OSError(ERR_STEAMCMD, ...); at no time are more than
\* MAX_RETRIES subprocesses launched.
C1_RetryBound ==
  /\ launches <= MAX_RETRIES
  /\ (all_outcomes = "exit1_silent" /\ pc \notin {"loop", "reading"}) =>
       /\ launches = MAX_RETRIES
       /\ attempt = MAX_RETRIES
       /\ raised.cls = "OSError"
       /\ Len(raised.args) = 2
       /\ raised.args[1] = ERR_STEAMCMD
       /\ (pc = "done" => ErrorEmitted /\ stdout[1].error.code = ERR_STEAMCMD)

C1_Witness ==
  /\ ErrorEmitted
  /\ all_outcomes = "exit1_silent"
  /\ launches = MAX_RETRIES
  /\ stdout[1].error.code = ERR_STEAMCMD

\* C2: an attempt after the first starts only when time.sleep(RETRY_DELAY) was
\* called since the attempt before it failed.
C2_SleepBetweenAttempts ==
  [][(attempt' = attempt + 1 /\ attempt >= 1) => slept]_vars

\* C3: when the error of the exhausted loop is raised, no sleep followed the
\* final attempt.
C3_NoSleepAfterFinal ==
  (pc = "except" /\ attempt = MAX_RETRIES) => ~slept

\* The class the claim gives an attempt that ended as k.
ClassOfOutcome(k) ==
  IF k = "disk" THEN ERR_DISK
  ELSE IF k = "network" THEN ERR_NETWORK
  ELSE ERR_STEAMCMD

\* C4: when all attempts failed, the error result carries the class of the
\* last failed attempt: ERR_DISK for the disk marker, ERR_NETWORK for the
\* network marker, ERR_STEAMCMD otherwise.
C4_LastErrorClass ==
  RetriesExhausted =>
    /\ ErrorEmitted
    /\ stdout[1].error.code = ClassOfOutcome(last_outcome)

\* C5: when the probe works and reports less than MIN_DISK_SPACE_MB, the disk
\* check raises OSError(ERR_DISK, ...) out of run_update_process, before any
\* subprocess is launched.
C5_LowDiskRaises ==
  [][(pc = "disk_probed" /\ free_mb \in FreeMB /\ free_mb < MIN_DISK_SPACE_MB) =>
       /\ pc' = "except"
       /\ raised'.cls = "OSError"
       /\ raised'.args[1] = ERR_DISK
       /\ launches' = 0]_vars

\* Positions inside run_update_process and line 222.
InstallerPcs ==
  {"ensure_dir", "check_disk", "disk_probed", "loop", "reading", "after_loop",
   "post_update"}

\* C6: execute enters run_update_process exactly when force is set, or the
\* remote version is None, or the local and remote versions differ; otherwise
\* it goes to the result with state "up_to_date".
C6_UpdateDecision ==
  /\ pc \in InstallerPcs => (force \/ remote_ver = None \/ old_ver # remote_ver)
  /\ (pc = "assemble" /\ status = "up_to_date") =>
       ~(force \/ remote_ver = None \/ old_ver # remote_ver)
  /\ (pc = "assemble" /\ status # "up_to_date") =>
       (force \/ remote_ver = None \/ old_ver # remote_ver)

C6_Witness ==
  /\ pc = "ensure_dir"
  /\ ~force
  /\ remote_ver = None

\* C7: when the local version equals the remote version and force is not
\* set, no subprocess is launched and the one result is success, up_to_date,
\* old_version = new_version = the local version, total_bytes = 0.
C7_UpToDate ==
  (~force /\ old_ver # Unset /\ old_ver = remote_ver) =>
    /\ launches = 0
    /\ attempt = 0
    /\ pc \notin InstallerPcs \cup {"except", "main_except"}
    /\ pc = "done" =>
         /\ SuccessEmitted
         /\ exit_code = 0
         /\ stdout[1].state = "up_to_date"
         /\ stdout[1].version_info.old_version = old_ver
         /\ stdout[1].version_info.new_version = old_ver
         /\ stdout[1].download_info.total_bytes = 0

C7_Witness ==
  /\ SuccessEmitted
  /\ ~force
  /\ old_ver = "100"
  /\ remote_ver = "100"
  /\ stdout[1].state = "up_to_date"
  /\ launches = 0

\* C8: download_total_bytes never decreases in any step (reading a line,
\* starting the next attempt, or any other), it is the largest total of all
\* download progress lines read so far in any attempt, and a success result
\* reports that value.
C8_TotalMonotonic ==
  [][/\ download_total_bytes' >= download_total_bytes
     /\ download_total_bytes' = seen_max'
     /\ (pc' = "done" /\ stdout'[1].status = "success") =>
          stdout'[1].download_info.total_bytes = seen_max']_vars

C8_Witness ==
  /\ SuccessEmitted
  /\ attempt >= 2
  /\ stdout[1].download_info.total_bytes >= 1

\* C9: every printed result is either a success result with version_info and
\* no error, or an error result with an error {code, message} and neither
\* version_info nor state nor download_info.
C9_ResultShape ==
  \A i \in 1..Len(stdout) :
    \/ /\ stdout[i].status = "success"
       /\ "version_info" \in DOMAIN stdout[i]
       /\ "error" \notin DOMAIN stdout[i]
    \/ /\ stdout[i].status = "error"
       /\ DOMAIN stdout[i] = {"status", "error"}
       /\ DOMAIN stdout[i].error = {"code", "message"}

C9_Witness ==
  /\ ErrorEmitted
  /\ download_total_bytes > 0
  /\ all_outcomes = "mixed"

\* C10: the code of every error result is a member of the closed set of
\* error codes.
C10_ClosedErrorCodes ==
  ErrorEmitted => stdout[1].error.code \in ErrorCodes

\* C11: at every moment at most one update subprocess started by
\* run_update_process has not yet exited.
C11_OneSubprocess == alive <= 1

C13_RemoteUnknown ==
  pc = "decide" =>
    /\ remote_ver # None <=> (~res.timeout /\ res.rc = 0 /\ res.bid # NoBuildId)
    /\ remote_ver # None => remote_ver = res.bid

\* C14: when the prior local version is "0" and the installer succeeded, the
\* one result is success with state "fresh_installed", old_version "0", and
\* new_version is the build id the manifest holds after the installer
\* finished, whatever the remote version was.
C14_FreshInstall ==
  (pc = "done" /\ success /\ old_ver = "0") =>
    /\ SuccessEmitted
    /\ stdout[1].state = "fresh_installed"
    /\ stdout[1].version_info.old_version = "0"
    /\ stdout[1].version_info.new_version = get_local_version(manifest)

C14_Witness ==
  /\ SuccessEmitted
  /\ old_ver = "0"
  /\ remote_ver = "205"
  /\ attempt = 1
  /\ stdout[1].state = "fresh_installed"
  /\ stdout[1].version_info.new_version = "100"

\* C15: every success result with state "updated" has an old_version that is
\* not "0" and that differs from its new_version.
C15_UpdatedMeansChanged ==
  (SuccessEmitted /\ stdout[1].state = "updated") =>
    /\ stdout[1].version_info.old_version # "0"
    /\ stdout[1].version_info.old_version # stdout[1].version_info.new_version

\* C16: when the subprocess of an attempt exits, the attempt counts as success
\* (success is set and the loop is left) exactly when its exit code is 0 and
\* its output contains the success marker; otherwise success stays unset and
\* control goes back to the loop for the next attempt.
C16_SuccessNeedsBoth ==
  [][(pc = "reading" /\ returncode' # NoReturncode) =>
       /\ success' <=> (returncode' = 0 /\ SuccessMarker \in output_buffer)
       /\ success' => (pc' = "after_loop" /\ launches' = launches)
       /\ ~success' => (pc' = "loop" /\ last_outcome' # "success")]_vars

C16_Witness ==
  /\ pc = "loop"
  /\ ~success
  /\ returncode = 1
  /\ SuccessMarker \in output_buffer
  /\ last_outcome = "failed"

\* C17: when every attempt ended in an exception (Popen or the reading of the
\* output raised) and the retries are exhausted, the error result has code
\* ERR_UNKNOWN.
C17_AllExceptionsUnknown ==
  (RetriesExhausted /\ all_outcomes = "exception") =>
    /\ ErrorEmitted
    /\ stdout[1].error.code = ERR_UNKNOWN

\* C18: once _ensure_dir has raised OSError(ERR_PERMISSION, ...), no attempt
\* is made and no subprocess is launched, control is in the error path, and
\* the run ends with exactly one result, an error with code ERR_PERMISSION.
C18_PermissionError ==
  (raised.cls = "OSError" /\ raised.args[1] = ERR_PERMISSION) =>
    /\ launches = 0
    /\ attempt = 0
    /\ alive = 0
    /\ pc \in {"except", "main_except", "done"}
    /\ pc = "done" =>
         /\ ErrorEmitted
         /\ stdout[1].error.code = ERR_PERMISSION
         /\ exit_code = 1

C18_Witness ==
  /\ ErrorEmitted
  /\ should_update
  /\ raised = OSErrorOf(ERR_PERMISSION, <<"No write permission">>)
  /\ stdout[1].error.code = ERR_PERMISSION

\* C19: once success is set, it stays set, no further subprocess is launched
\* and no further attempt starts; control only moves on to the result, and
\* the result printed is a success result without an error, with exit code 0.
C19_SuccessEndsRetries ==
  [][success =>
       /\ success'
       /\ launches' = launches
       /\ attempt' = attempt
       /\ pc' \in {"after_loop", "post_update", "assemble", "main_print", "done"}
       /\ pc' = "done" =>
            /\ Len(stdout') = 1
            /\ stdout'[1].status = "success"
            /\ "error" \notin DOMAIN stdout'[1]
            /\ exit_code' = 0]_vars

C19_Witness ==
  /\ SuccessEmitted
  /\ success
  /\ attempt >= 3
  /\ all_outcomes = "mixed"
  /\ last_error # << >>
  /\ launches < attempt

\* C20: when every launched subprocess eventually exits, a run never launches
\* more than MAX_RETRIES update subprocesses and eventually ends with one
\* result (success or error) printed.
C20_Terminates ==
  /\ [](launches <= MAX_RETRIES /\ attempt <= MAX_RETRIES)
  /\ <>(pc = "done" /\ Len(stdout) = 1 /\ stdout[1].status \in {"success", "error"})

C20_Witness ==
  /\ SuccessEmitted
  /\ launches = MAX_RETRIES
  /\ last_error # << >>

====
